---- MODULE Spec2Model ----
(***************************************************************************)
(* Model of the Go 3TL parser, src/go/pkg/parser/parser.go.                *)
(*                                                                         *)
(* Text is a sequence of characters, each character a string of length 1.  *)
(* The lexer is Participle's simple lexer: at every position the rules of  *)
(* `lex` are tried in the order they are listed and the first rule whose   *)
(* pattern matches a non-empty prefix produces the token; rules whose name *)
(* starts with a lower-case letter ("whitespace") produce no token.  A     *)
(* quoted item of a struct tag ('#', ',') matches a token whose VALUE is   *)
(* exactly that text, a bare name (Ident, Newline) matches on the token    *)
(* TYPE, and alternatives are tried in order.                              *)
(***************************************************************************)
EXTENDS Integers, Sequences, FiniteSets, TLC

VARIABLES src, input, pc, doc, err, ftext, fquoted, fpc, fval, flit,
          csrc, cpc, cdef, ctype, jdoc, jpretty, jpc, jout, jerr, calls,
          tlines, ti, tacc, tpc, tdoc, rfields, rpc, rvals

vars == <<src, input, pc, doc, err, ftext, fquoted, fpc, fval, flit,
          csrc, cpc, cdef, ctype, jdoc, jpretty, jpc, jout, jerr, calls,
          tlines, ti, tacc, tpc, tdoc, rfields, rpc, rvals>>

\* the variables of a call of ParseString, of the classification of one
\* field, and of the resolution of one column definition
parseVars == <<src, input, pc, doc, err>>

fieldVars == <<ftext, fquoted, fpc, fval, flit>>

columnVars == <<csrc, cpc, cdef, ctype>>

\* the variables of a call of ToJSON, of the calls of ParseString that run
\* side by side, of one run of transform on a parse tree, and of the fields
\* of one data row
jsonVars == <<jdoc, jpretty, jpc, jout, jerr>>

callVars == <<calls>>

transformVars == <<tlines, ti, tacc, tpc, tdoc>>

rowVars == <<rfields, rpc, rvals>>

(***************************************************************************)
(* Bounds of the model.                                                    *)
(***************************************************************************)
MaxLines == 3

MaxCore == 3

MaxLiteral == 3

MaxParams == 2

(***************************************************************************)
(* Optional values (Go nil pointers): <<>> is nil, <<x>> is a pointer to x *)
(***************************************************************************)
None == <<>>

Some(x) == <<x>>

\* Body applied to the value of e, which is computed once
With(e, Body(_)) == Body(e)

\* the least element of a non-empty set of numbers
Min(S) == CHOOSE k \in S : \A j \in S : k <= j

(***************************************************************************)
(* Characters.                                                             *)
(***************************************************************************)
NL == "\n"

CR == "\r"

TAB == "\t"

QUOTE == "\""

Digits == {"0", "1", "2", "3", "4", "5", "6", "7", "8", "9"}

UpperSeq == <<"A", "B", "C", "D", "E", "F", "G", "H", "I", "J", "K", "L", "M",
              "N", "O", "P", "Q", "R", "S", "T", "U", "V", "W", "X", "Y", "Z">>

LowerSeq == <<"a", "b", "c", "d", "e", "f", "g", "h", "i", "j", "k", "l", "m",
              "n", "o", "p", "q", "r", "s", "t", "u", "v", "w", "x", "y", "z">>

Upper == {UpperSeq[i] : i \in 1..26}

Lower == {LowerSeq[i] : i \in 1..26}

\* Letters outside ASCII that the Ident rule admits, one name per code point.
UnicodeLetters == {"U+00E9", "U+540D"}

\* strings.ToLower on one character
LowerChar(c) == IF c \in Upper THEN LowerSeq[CHOOSE i \in 1..26 : UpperSeq[i] = c] ELSE c

\* strings.ToLower
ToLower(s) == [i \in 1..Len(s) |-> LowerChar(s[i])]

\* an ASCII word character, the class that \b of Go's regexp uses
IsWordChar(c) == c \in Digits \cup Upper \cup Lower \cup {"_"}

IdentStart(c) == c \in Upper \cup Lower \cup {"_"} \cup UnicodeLetters

IdentCont(c) == IdentStart(c) \/ c \in Digits

PunctChars == {"-", "[", "!", "@", "#", "$", "%", "^", "&", "*", "(", ")", "+",
               "_", "=", "{", "}", "|", ":", ";", QUOTE, "'", "<", ",", ">",
               ".", "?", "/"}

\* unicode.IsSpace restricted to the characters of the model
IsSpace(c) == c \in {" ", TAB, NL, CR}

(***************************************************************************)
(* Helpers on text.                                                        *)
(***************************************************************************)
Slice(s, i, n) == [k \in 1..n |-> s[i + k - 1]]

At(s, i) == IF i >= 1 /\ i <= Len(s) THEN s[i] ELSE "EOF"

\* number of consecutive characters from position i on that are in set S
RECURSIVE RunIn(_, _, _)
RunIn(s, i, S) == IF i <= Len(s) /\ s[i] \in S THEN 1 + RunIn(s, i + 1, S) ELSE 0

\* number of consecutive characters from position i on that differ from c
RECURSIVE RunNot(_, _, _)
RunNot(s, i, c) == IF i <= Len(s) /\ s[i] # c THEN 1 + RunNot(s, i + 1, c) ELSE 0

\* s has the text p at position i, ignoring letter case
HasPrefixFold(s, i, p) ==
    /\ i + Len(p) - 1 <= Len(s)
    /\ \A k \in 1..Len(p) : LowerChar(s[i + k - 1]) = p[k]

(***************************************************************************)
(* The lexer: `lex`, one definition per rule, giving the length of the     *)
(* rule's match at position i of s (0 when the rule does not match there). *)
(***************************************************************************)
\* Comment: #[^!@][^\n]*   (the second character may be a line break)
MatchComment(s, i) ==
    IF At(s, i) = "#" /\ i + 1 <= Len(s) /\ s[i + 1] \notin {"!", "@"}
    THEN 2 + RunNot(s, i + 2, NL)
    ELSE 0

\* TableMarker: #!
MatchTableMarker(s, i) == IF At(s, i) = "#" /\ At(s, i + 1) = "!" THEN 2 ELSE 0

\* SchemaMarker: #@
MatchSchemaMarker(s, i) == IF At(s, i) = "#" /\ At(s, i + 1) = "@" THEN 2 ELSE 0

TypeNames == <<<<"i", "8">>,
               <<"i", "1", "6">>,
               <<"i", "3", "2">>,
               <<"i", "6", "4">>,
               <<"i", "n", "t">>,
               <<"u", "8">>,
               <<"u", "1", "6">>,
               <<"u", "3", "2">>,
               <<"u", "6", "4">>,
               <<"u", "i", "n", "t">>,
               <<"f", "3", "2">>,
               <<"f", "6", "4">>,
               <<"f", "l", "o", "a", "t">>,
               <<"b", "o", "o", "l">>,
               <<"s", "t", "r">>,
               <<"t", "e", "x", "t">>,
               <<"d", "a", "t", "e">>,
               <<"t", "i", "m", "e">>,
               <<"d", "a", "t", "e", "t", "i", "m", "e">>,
               <<"t", "i", "m", "e", "s", "t", "a", "m", "p">>,
               <<"d", "e", "c", "i", "m", "a", "l">>,
               <<"r", "e", "f">>,
               <<"e", "n", "u", "m">>>>

\* TypeName: (?i)(i8|...|enum)\b   the first alternative, in the order
\* written, that matches and is followed by an ASCII word boundary
TypeNameHit(s, i, k) ==
    /\ HasPrefixFold(s, i, TypeNames[k])
    /\ ~IsWordChar(At(s, i + Len(TypeNames[k])))

TypeNameHits(s, i) == {k \in 1..Len(TypeNames) : TypeNameHit(s, i, k)}

TypeNameLen(hits) == IF hits = {} THEN 0 ELSE Len(TypeNames[Min(hits)])

MatchTypeName(s, i) == TypeNameLen(TypeNameHits(s, i))

\* position of the closing quote of a String that was opened before j, or 0;
\* pair is the position of the last doubled quote consumed, to which the
\* match falls back when the text ends before a single quote is found
RECURSIVE StringClose(_, _, _)
StringClose(s, j, pair) ==
    IF j > Len(s) THEN pair
    ELSE IF s[j] # QUOTE THEN StringClose(s, j + 1, pair)
    ELSE IF At(s, j + 1) = QUOTE THEN StringClose(s, j + 2, j)
    ELSE j

\* the String rule as it would be if it never matched, which leaves the
\* quote to the Punct rule
MatchString_off(s, i) == 0

\* String: "(?:[^"]|"")*"
MatchString(s, i) ==
    IF At(s, i) = QUOTE
    THEN LET c == StringClose(s, i + 1, 0) IN IF c = 0 THEN 0 ELSE c - i + 1
    ELSE 0

\* Number: -?\d+(?:\.\d+)?
MatchNumber(s, i) ==
    LET sign == IF At(s, i) = "-" THEN 1 ELSE 0
        whole == RunIn(s, i + sign, Digits)
        frac == IF At(s, i + sign + whole) = "."
                THEN RunIn(s, i + sign + whole + 1, Digits) ELSE 0
    IN  IF whole = 0 THEN 0
        ELSE IF frac > 0 THEN sign + whole + 1 + frac
        ELSE sign + whole

\* Ident: [a-zA-Z_...][a-zA-Z0-9_...]*
MatchIdent(s, i) ==
    IF IdentStart(At(s, i))
    THEN 1 + RunIn(s, i + 1, Digits \cup Upper \cup Lower \cup {"_"} \cup UnicodeLetters)
    ELSE 0

\* Punct: [-[!@#$%^&*()+_={}\|:;"'<,>.?/]|\[\]   the character class is the
\* first alternative and holds "[", so the second alternative never applies
MatchPunct(s, i) ==
    IF At(s, i) \in PunctChars THEN 1
    ELSE IF At(s, i) = "[" /\ At(s, i + 1) = "]" THEN 2
    ELSE 0

\* Newline: \r?\n
MatchNewline(s, i) ==
    IF At(s, i) = NL THEN 1
    ELSE IF At(s, i) = CR /\ At(s, i + 1) = NL THEN 2
    ELSE 0

\* whitespace: [ \t]+
MatchWhitespace(s, i) == RunIn(s, i, {" ", TAB})

\* the rules of `lex` in the order of the rule list, each with the length
\* of its match at position i
Rules(s, i) ==
    <<[type |-> "Comment", len |-> MatchComment(s, i)],
      [type |-> "TableMarker", len |-> MatchTableMarker(s, i)],
      [type |-> "SchemaMarker", len |-> MatchSchemaMarker(s, i)],
      [type |-> "TypeName", len |-> MatchTypeName(s, i)],
      [type |-> "String", len |-> MatchString(s, i)],
      [type |-> "Number", len |-> MatchNumber(s, i)],
      [type |-> "Ident", len |-> MatchIdent(s, i)],
      [type |-> "Punct", len |-> MatchPunct(s, i)],
      [type |-> "Newline", len |-> MatchNewline(s, i)],
      [type |-> "whitespace", len |-> MatchWhitespace(s, i)]>>

\* the first rule of the list that matches, or a rule "none" of length 0
FirstOf(rules) ==
    IF \E k \in 1..Len(rules) : rules[k].len > 0
    THEN rules[Min({k \in 1..Len(rules) : rules[k].len > 0})]
    ELSE [type |-> "none", len |-> 0]

FirstRule(s, i) == FirstOf(Rules(s, i))

\* The token stream of s from position i on.  Tokens of the elided rule
\* "whitespace" are dropped.  Where no rule matches (the lexer's "invalid
\* input text" error) the stream ends with a token of type "invalid".
RECURSIVE LexFrom(_, _)
LexFrom(s, i) ==
    IF i > Len(s) THEN <<>>
    ELSE With(FirstRule(s, i), LAMBDA r :
             IF r.len = 0 THEN <<[type |-> "invalid", value |-> <<>>]>>
             ELSE (IF r.type = "whitespace" THEN <<>>
                   ELSE <<[type |-> r.type, value |-> Slice(s, i, r.len)]>>)
                  \o LexFrom(s, i + r.len))

LexOk(toks) == Len(toks) = 0 \/ toks[Len(toks)].type # "invalid"

Lex(s) == With(LexFrom(s, 1), LAMBDA ts : [ok |-> LexOk(ts), toks |-> ts])

(***************************************************************************)
(* The grammar: the struct tags of file, line, comment, tableHeader,       *)
(* schemaDef, columnDef, dataRow and field.  Every production takes the    *)
(* token stream and a position and gives [ok, next, val].                  *)
(***************************************************************************)
Tok(toks, i) == IF i >= 1 /\ i <= Len(toks) THEN toks[i] ELSE [type |-> "EOF", value |-> <<>>]

\* a quoted item of a tag: the token's value is exactly the text
IsLit(t, text) == t.type # "EOF" /\ t.value = text

\* a bare token name of a tag
IsType(t, type) == t.type = type

\* the concatenation of the values of the tokens i .. i+n-1, which is how a
\* run of captured tokens is stored in a string field
RECURSIVE Concat(_, _, _)
Concat(toks, i, n) == IF n = 0 THEN <<>> ELSE toks[i].value \o Concat(toks, i + 1, n - 1)

\* one element of the unquoted run of `field`:
\*   Ident | Number | '.' | '-' | '@' | '_' | '/' | ':' | ~( ',' | Newline | '#' )
FieldElem(t) ==
    /\ t.type # "EOF"
    /\ \/ IsType(t, "Ident")
       \/ IsType(t, "Number")
       \/ \E c \in {".", "-", "@", "_", "/", ":"} : IsLit(t, <<c>>)
       \/ ~(IsLit(t, <<",">>) \/ IsType(t, "Newline") \/ IsLit(t, <<"#">>))

RECURSIVE FieldRun(_, _)
FieldRun(toks, i) == IF FieldElem(Tok(toks, i)) THEN 1 + FieldRun(toks, i + 1) ELSE 0

\* field:  @String | @( ... )*      the run may be empty; the captured field
\* is then a pointer to the empty string
ParseField(toks, i) ==
    IF IsType(Tok(toks, i), "String")
    THEN [ok |-> TRUE, next |-> i + 1,
          val |-> [Quoted |-> Some(toks[i].value), Unquoted |-> None]]
    ELSE LET n == FieldRun(toks, i) IN
         [ok |-> TRUE, next |-> i + n,
          val |-> [Quoted |-> None, Unquoted |-> Some(Concat(toks, i, n))]]

\* the position after the items rs, which start at position i
NextAfter(rs, i) == IF Len(rs) = 0 THEN i ELSE rs[Len(rs)].next

Vals(rs) == [k \in 1..Len(rs) |-> rs[k].val]

\* @@ ( ',' @@ )*  of dataRow: the fields from position i on, each with the
\* position after it
RECURSIVE FieldsFrom(_, _)
FieldsFrom(toks, i) ==
    With(ParseField(toks, i), LAMBDA f :
        <<f>> \o (IF IsLit(Tok(toks, f.next), <<",">>)
                  THEN FieldsFrom(toks, f.next + 1) ELSE <<>>))

DataRowOf(toks, i, fs) ==
    IF IsType(Tok(toks, NextAfter(fs, i)), "Newline")
    THEN [ok |-> TRUE, next |-> NextAfter(fs, i) + 1, val |-> [Fields |-> Vals(fs)]]
    ELSE [ok |-> FALSE, next |-> i, val |-> [Fields |-> <<>>]]

\* dataRow:  @@ ( ',' @@ )* Newline
ParseDataRow(toks, i) == DataRowOf(toks, i, FieldsFrom(toks, i))

IsParam(t) == IsType(t, "Ident") \/ IsType(t, "Number")

IsParamSep(t) == \E c \in {",", ".", "|"} : IsLit(t, <<c>>)

\* @( Ident | Number ) ( ( ',' | '.' | '|' ) @( Ident | Number ) )*  of
\* columnDef: the parameters from position i on
RECURSIVE ParamsFrom(_, _)
ParamsFrom(toks, i) ==
    IF IsParam(Tok(toks, i))
    THEN <<[next |-> i + 1, val |-> toks[i].value]>>
         \o (IF IsParamSep(Tok(toks, i + 1)) THEN ParamsFrom(toks, i + 2) ELSE <<>>)
    ELSE <<>>

ParamsOf(toks, i, ps) ==
    IF Len(ps) > 0 /\ IsLit(Tok(toks, NextAfter(ps, i)), <<")">>)
    THEN [next |-> NextAfter(ps, i) + 1, val |-> Vals(ps)]
    ELSE [next |-> i, val |-> <<>>]

\* ( '(' @( Ident | Number ) ( ... )* ')' )?  of columnDef
ParseParams(toks, i) ==
    IF IsLit(Tok(toks, i), <<"(">>)
    THEN ParamsOf(toks, i, ParamsFrom(toks, i + 1))
    ELSE [next |-> i, val |-> <<>>]

\* @( '[' ']' )?  of columnDef, at position a
IsArray(toks, a) == IsLit(Tok(toks, a), <<"[">>) /\ IsLit(Tok(toks, a + 1), <<"]">>)

\* the position after @( '[' ']' )?
AfterArray(toks, a) == IF IsArray(toks, a) THEN a + 2 ELSE a

\* @'?'?  of columnDef, at position a
IsNullable(toks, a) == IsLit(Tok(toks, a), <<"?">>)

ColumnDefOf(toks, i, p) ==
    [ok |-> TRUE,
     next |-> AfterArray(toks, p.next)
              + (IF IsNullable(toks, AfterArray(toks, p.next)) THEN 1 ELSE 0),
     val |-> [Name |-> toks[i].value, TypeName |-> toks[i + 2].value,
              Params |-> p.val, Array |-> IsArray(toks, p.next),
              Nullable |-> IsNullable(toks, AfterArray(toks, p.next))]]

\* columnDef:  @Ident ':'  @TypeName  params?  @( '[' ']' )?  @'?'?
ParseColumnDef(toks, i) ==
    IF /\ IsType(Tok(toks, i), "Ident")
       /\ IsLit(Tok(toks, i + 1), <<":">>)
       /\ IsType(Tok(toks, i + 2), "TypeName")
    THEN ColumnDefOf(toks, i, ParseParams(toks, i + 3))
    ELSE [ok |-> FALSE, next |-> i, val |-> <<>>]

\* @@ ( ',' @@ )*  of schemaDef: the column definitions from position i on
RECURSIVE ColumnsFrom(_, _)
ColumnsFrom(toks, i) ==
    With(ParseColumnDef(toks, i), LAMBDA c :
        IF ~c.ok THEN <<>>
        ELSE <<c>> \o (IF IsLit(Tok(toks, c.next), <<",">>)
                       THEN ColumnsFrom(toks, c.next + 1) ELSE <<>>))

SchemaDefOf(toks, i, cs) ==
    IF Len(cs) > 0 /\ IsType(Tok(toks, NextAfter(cs, i)), "Newline")
    THEN [ok |-> TRUE, next |-> NextAfter(cs, i) + 1, val |-> [Columns |-> Vals(cs)]]
    ELSE [ok |-> FALSE, next |-> i, val |-> [Columns |-> <<>>]]

\* schemaDef:  '#' '@' @@ ( ',' @@ )* Newline
ParseSchemaDef(toks, i) ==
    IF IsLit(Tok(toks, i), <<"#">>) /\ IsLit(Tok(toks, i + 1), <<"@">>)
    THEN SchemaDefOf(toks, i, ColumnsFrom(toks, i + 2))
    ELSE [ok |-> FALSE, next |-> i, val |-> [Columns |-> <<>>]]

\* tableHeader:  '#' '!' @Ident Newline
ParseTableHeader(toks, i) ==
    IF /\ IsLit(Tok(toks, i), <<"#">>)
       /\ IsLit(Tok(toks, i + 1), <<"!">>)
       /\ IsType(Tok(toks, i + 2), "Ident")
       /\ IsType(Tok(toks, i + 3), "Newline")
    THEN [ok |-> TRUE, next |-> i + 4, val |-> [Name |-> toks[i + 2].value]]
    ELSE [ok |-> FALSE, next |-> i, val |-> [Name |-> <<>>]]

RECURSIVE NonNewlineRun(_, _)
NonNewlineRun(toks, i) ==
    IF Tok(toks, i).type \notin {"EOF", "Newline"} THEN 1 + NonNewlineRun(toks, i + 1) ELSE 0

\* length of  ( ![@!] @( ~Newline )* )?  of comment, at position i
CommentRun(toks, i) ==
    IF IsLit(Tok(toks, i), <<"@">>) \/ IsLit(Tok(toks, i), <<"!">>)
    THEN 0 ELSE NonNewlineRun(toks, i)

CommentOf(toks, i, n) ==
    IF IsType(Tok(toks, i + 1 + n), "Newline")
    THEN [ok |-> TRUE, next |-> i + n + 2, val |-> [Text |-> Concat(toks, i + 1, n)]]
    ELSE [ok |-> FALSE, next |-> i, val |-> [Text |-> <<>>]]

\* comment:  '#' ( ![@!] @( ~Newline )* )? Newline
ParseComment(toks, i) ==
    IF IsLit(Tok(toks, i), <<"#">>)
    THEN CommentOf(toks, i, CommentRun(toks, i + 1))
    ELSE [ok |-> FALSE, next |-> i, val |-> [Text |-> <<>>]]

\* @Newline  of line
ParseEmptyLine(toks, i) ==
    IF IsType(Tok(toks, i), "Newline")
    THEN [ok |-> TRUE, next |-> i + 1, val |-> toks[i].value]
    ELSE [ok |-> FALSE, next |-> i, val |-> <<>>]

NoLine == [Comment |-> None, TableHeader |-> None, SchemaDef |-> None,
           DataRow |-> None, EmptyLine |-> None]

\* the line that holds the result r of a production in its field f
AsLine(r, f) == [ok |-> r.ok, next |-> r.next, val |-> [NoLine EXCEPT ![f] = Some(r.val)]]

\* line:  @@ (comment) | @@ (tableHeader) | @@ (schemaDef) | @@ (dataRow) | @Newline
LineAlternatives(toks, i) ==
    <<AsLine(ParseComment(toks, i), "Comment"),
      AsLine(ParseTableHeader(toks, i), "TableHeader"),
      AsLine(ParseSchemaDef(toks, i), "SchemaDef"),
      AsLine(ParseDataRow(toks, i), "DataRow"),
      AsLine(ParseEmptyLine(toks, i), "EmptyLine")>>

\* the alternatives are tried in the order written and the first that
\* matches wins
FirstMatch(alts, i) ==
    IF \E k \in 1..Len(alts) : alts[k].ok
    THEN alts[Min({k \in 1..Len(alts) : alts[k].ok})]
    ELSE [ok |-> FALSE, next |-> i, val |-> NoLine]

ParseLine(toks, i) == FirstMatch(LineAlternatives(toks, i), i)

\* file:  @@*  followed by the end of the input.  Gives the lines matched
\* from position i on, each with the position after it; when a line does
\* not match before the end of the input the parse fails, which the last
\* item records (ok is FALSE).  Participle hands back the lines matched so
\* far together with the error.
RECURSIVE ParseLines(_, _)
ParseLines(toks, i) ==
    IF i > Len(toks) THEN <<>>
    ELSE With(ParseLine(toks, i), LAMBDA l :
             IF ~l.ok THEN <<l>> ELSE <<l>> \o ParseLines(toks, l.next))

LinesOk(ls) == Len(ls) = 0 \/ ls[Len(ls)].ok

MatchedLines(ls) == Vals(SelectSeq(ls, LAMBDA l : l.ok))

FileOf(ls) == [ok |-> LinesOk(ls), file |-> [Lines |-> MatchedLines(ls)]]

ParseFile(l) ==
    IF ~l.ok THEN [ok |-> FALSE, file |-> [Lines |-> <<>>]]
    ELSE FileOf(ParseLines(l.toks, 1))

\* parser.ParseString("", input): lex the whole input, then parse `file`
parserParseString(s) == ParseFile(Lex(s))

(***************************************************************************)
(* strings and strconv, as far as cleanField and formatType use them.      *)
(***************************************************************************)
\* strings.TrimPrefix(s, c) for a one-character prefix
TrimPrefix(s, c) == IF Len(s) > 0 /\ s[1] = c THEN Slice(s, 2, Len(s) - 1) ELSE s

\* strings.TrimSuffix(s, c) for a one-character suffix
TrimSuffix(s, c) == IF Len(s) > 0 /\ s[Len(s)] = c THEN Slice(s, 1, Len(s) - 1) ELSE s

\* strings.ReplaceAll(s, "\"\"", "\""), scanning from the left
RECURSIVE UnescapeFrom(_, _)
UnescapeFrom(s, i) ==
    IF i > Len(s) THEN <<>>
    ELSE IF s[i] = QUOTE /\ At(s, i + 1) = QUOTE THEN <<QUOTE>> \o UnescapeFrom(s, i + 2)
    ELSE <<s[i]>> \o UnescapeFrom(s, i + 1)

\* the unescape as it would be if it left doubled quotes as they are
ReplaceAllQuotes_keep(s) == s

ReplaceAllQuotes(s) == UnescapeFrom(s, 1)

\* strings.TrimSpace
TrimSpace(s) ==
    LET lead == RunIn(s, 1, {" ", TAB, NL, CR}) IN
    IF lead = Len(s) THEN <<>>
    ELSE LET last == CHOOSE j \in 1..Len(s) :
                        /\ ~IsSpace(s[j])
                        /\ \A k \in (j + 1)..Len(s) : IsSpace(s[k])
         IN  Slice(s, lead + 1, last - lead)

AllDigits(s) == \A k \in 1..Len(s) : s[k] \in Digits

\* a digit string without its leading zeros ("0" for zero)
StripZeros(s) ==
    LET z == RunIn(s, 1, {"0"}) IN
    IF z = Len(s) THEN <<"0">> ELSE Slice(s, z + 1, Len(s) - z)

DigitVal(c) == CHOOSE v \in 0..9 : <<"0", "1", "2", "3", "4", "5", "6", "7", "8", "9">>[v + 1] = c

PadDigit(s, k) == IF k <= Len(s) THEN DigitVal(s[k]) ELSE 0

\* a <= b for digit strings read as the decimal fractions 0.a and 0.b
FracLeq(a, b) ==
    LET n == IF Len(a) > Len(b) THEN Len(a) ELSE Len(b) IN
    \/ \A k \in 1..n : PadDigit(a, k) = PadDigit(b, k)
    \/ \E k \in 1..n : /\ PadDigit(a, k) < PadDigit(b, k)
                       /\ \A j \in 1..(k - 1) : PadDigit(a, j) = PadDigit(b, j)

MaxInt64Digits == <<"9", "2", "2", "3", "3", "7", "2", "0", "3", "6",
                    "8", "5", "4", "7", "7", "5", "8", "0", "7">>

MinInt64Digits == <<"9", "2", "2", "3", "3", "7", "2", "0", "3", "6",
                    "8", "5", "4", "7", "7", "5", "8", "0", "8">>

\* the length of a leading sign + or -
SignLen(s) == IF Len(s) > 0 /\ s[1] \in {"+", "-"} THEN 1 ELSE 0

IsNeg(s) == Len(s) > 0 /\ s[1] = "-"

Unsigned(s) == Slice(s, SignLen(s) + 1, Len(s) - SignLen(s))

\* the digits n, without leading zeros, are within the int64 range
InInt64(n, neg) ==
    Len(n) < 19 \/ (Len(n) = 19 /\ FracLeq(n, IF neg THEN MinInt64Digits ELSE MaxInt64Digits))

IntOf(body, neg, n) ==
    IF Len(body) > 0 /\ AllDigits(body) /\ InInt64(n, neg)
    THEN [ok |-> TRUE, neg |-> neg /\ n # <<"0">>, digits |-> n]
    ELSE [ok |-> FALSE, neg |-> FALSE, digits |-> <<>>]

\* strconv.ParseInt(s, 10, 64): an optional sign + or -, then decimal digits
\* only; out of the int64 range is an error.  The value is kept as sign and
\* digits without leading zeros.
ParseInt(s) == IntOf(Unsigned(s), IsNeg(s), StripZeros(Unsigned(s)))

\* the number a digit string denotes, for the exponent of a float
RECURSIVE DigitsToNat(_)
DigitsToNat(s) ==
    IF Len(s) = 0 THEN 0 ELSE 10 * DigitsToNat(Slice(s, 1, Len(s) - 1)) + DigitVal(s[Len(s)])

\* half an ulp above the largest float64, 1.797693134862315807e308
MaxFloatFrac == <<"1", "7", "9", "7", "6", "9", "3", "1", "3", "4", "8",
                  "6", "2", "3", "1", "5", "8", "0", "7">>

Float64MaxExp10 == 308

SpecialOf(s, body) ==
    IF body = <<"i", "n", "f">> \/ body = <<"i", "n", "f", "i", "n", "i", "t", "y">>
    THEN [ok |-> TRUE, class |-> "inf"]
    ELSE IF ToLower(s) = <<"n", "a", "n">> THEN [ok |-> TRUE, class |-> "nan"]
    ELSE [ok |-> FALSE, class |-> "none"]

\* strconv.ParseFloat(s, 64) for the text "inf", "infinity" (signed or
\* not) and "nan", in any letter case
ParseSpecial(s) == SpecialOf(s, ToLower(Unsigned(s)))

\* digits with at most one point, from position b on, the first run of
\* digits being `whole` long
MantissaOf(s, b, whole) ==
    IF At(s, b + whole) = "."
    THEN [whole |-> Slice(s, b, whole),
          frac |-> Slice(s, b + whole + 1, RunIn(s, b + whole + 1, Digits)),
          next |-> b + whole + 1 + RunIn(s, b + whole + 1, Digits)]
    ELSE [whole |-> Slice(s, b, whole), frac |-> <<>>, next |-> b + whole]

ScanMantissa(s, b) == MantissaOf(s, b, RunIn(s, b, Digits))

\* the digits of an exponent, from position d on and n long
ExponentOf(s, d, n, neg) ==
    [ok |-> n > 0, neg |-> neg, value |-> DigitsToNat(Slice(s, d, n)), next |-> d + n]

\* an optional exponent at position e: e or E, an optional sign, digits
ScanExponent(s, e) ==
    IF At(s, e) \in {"e", "E"}
    THEN IF At(s, e + 1) \in {"+", "-"}
         THEN ExponentOf(s, e + 2, RunIn(s, e + 2, Digits), At(s, e + 1) = "-")
         ELSE ExponentOf(s, e + 1, RunIn(s, e + 1, Digits), FALSE)
    ELSE [ok |-> TRUE, neg |-> FALSE, value |-> 0, next |-> e]

\* the value with the digits mant, `lead` of them leading zeros and `whole`
\* of them before the point, times 10^expo is too large for a float64
TooBig(mant, lead, whole, expo) ==
    /\ lead < Len(mant)
    /\ \/ whole - (lead + 1) + expo > Float64MaxExp10
       \/ /\ whole - (lead + 1) + expo = Float64MaxExp10
          /\ FracLeq(MaxFloatFrac, Slice(mant, lead + 1, Len(mant) - lead))

DecimalOk(s, m, x) ==
    /\ Len(m.whole) + Len(m.frac) > 0
    /\ x.ok
    /\ x.next = Len(s) + 1
    /\ ~TooBig(m.whole \o m.frac, RunIn(m.whole \o m.frac, 1, {"0"}), Len(m.whole),
               IF x.neg THEN 0 - x.value ELSE x.value)

\* strconv.ParseFloat(s, 64) for decimal text: an optional sign, digits with
\* at most one point and at least one digit, an optional exponent e or E
\* with an optional sign and at least one digit; a value too large for a
\* float64 is an error.  (Hexadecimal floats and digit-separating
\* underscores are outside the alphabets of the model.)
ParseDecimalFloat(s) ==
    With(ScanMantissa(s, SignLen(s) + 1), LAMBDA m : DecimalOk(s, m, ScanExponent(s, m.next)))

FloatOf(s, special) ==
    IF special.ok THEN special
    ELSE IF ParseDecimalFloat(s) THEN [ok |-> TRUE, class |-> "finite"]
    ELSE [ok |-> FALSE, class |-> "none"]

ParseFloat(s) == FloatOf(s, ParseSpecial(s))

(***************************************************************************)
(* Row values: Go's any holding nil, bool, int64, float64 or string.       *)
(***************************************************************************)
VNull == [kind |-> "null"]

VBool(b) == [kind |-> "bool", b |-> b]

VInt(neg, digits) == [kind |-> "int", neg |-> neg, digits |-> digits]

VFloat(class, text) == [kind |-> "float", class |-> class, text |-> text]

VStr(s) == [kind |-> "string", s |-> s]

\* the text cleanField classifies: the unquoted run trimmed, or the quoted
\* token without its two quotes and with doubled quotes undone
FieldValueText(f) ==
    IF f.Quoted # None
    THEN ReplaceAllQuotes(TrimSuffix(TrimPrefix(f.Quoted[1], QUOTE), QUOTE))
    ELSE TrimSpace(f.Unquoted[1])

\* the last two conversions of cleanField: strconv.ParseFloat, else string
FloatOrString(value, fl) == IF fl.ok THEN VFloat(fl.class, value) ELSE VStr(value)

\* cleanField as it would be if it tried strconv.ParseFloat before
\* strconv.ParseInt
NumberOrString_floatFirst(value, n) == FloatOrString(value, ParseFloat(value))

\* strconv.ParseInt first
NumberOrString(value, n) ==
    IF n.ok THEN VInt(n.neg, n.digits) ELSE FloatOrString(value, ParseFloat(value))

ValueOf(value) ==
    IF value = <<>> \/ ToLower(value) = <<"n", "u", "l", "l">> THEN VNull
    ELSE IF ToLower(value) = <<"t", "r", "u", "e">> THEN VBool(TRUE)
    ELSE IF ToLower(value) = <<"f", "a", "l", "s", "e">> THEN VBool(FALSE)
    ELSE NumberOrString(value, ParseInt(value))

cleanField(f) ==
    IF f.Quoted = None /\ f.Unquoted = None THEN VNull
    ELSE ValueOf(FieldValueText(f))

(***************************************************************************)
(* formatType and transform.                                               *)
(***************************************************************************)
\* strings.Join(params, " | ")
RECURSIVE JoinBar(_)
JoinBar(ps) ==
    IF Len(ps) = 0 THEN <<>>
    ELSE IF Len(ps) = 1 THEN ps[1]
    ELSE ps[1] \o <<" ", "|", " ">> \o JoinBar(Tail(ps))

formatType(col) ==
    LET typeName == ToLower(col.TypeName)
        base ==
            IF Len(col.Params) > 0 /\ typeName = <<"d", "e", "c", "i", "m", "a", "l">>
               /\ Len(col.Params) >= 2
            THEN typeName \o <<"(">> \o col.Params[1] \o <<",">> \o col.Params[2] \o <<")">>
            ELSE IF Len(col.Params) > 0 /\ typeName = <<"r", "e", "f">> /\ Len(col.Params) >= 2
            THEN typeName \o <<"(">> \o col.Params[1] \o <<".">> \o col.Params[2] \o <<")">>
            ELSE IF Len(col.Params) > 0 /\ typeName = <<"e", "n", "u", "m">>
            THEN typeName \o <<"(">> \o JoinBar(col.Params) \o <<")">>
            ELSE typeName
        arr == IF col.Array THEN base \o <<"[", "]">> ELSE base
    IN  IF col.Nullable THEN arr \o <<"?">> ELSE arr

\* the tables of the Document as they would be if sealing the current
\* table put it in place of the tables sealed before
Sealed_overwrite(acc) == IF acc.cur # None THEN <<acc.cur[1]>> ELSE acc.Tables

\* if currentTable != nil { doc.Tables = append(doc.Tables, *currentTable) }
Sealed(acc) == IF acc.cur # None THEN Append(acc.Tables, acc.cur[1]) ELSE acc.Tables

\* the accumulator after a line without a table as it would be if a
\* schema-def or data-row line opened a table of its own
Skipped_opensTable(acc, line) ==
    IF (line.SchemaDef # None \/ line.DataRow # None) /\ acc.cur = None
    THEN [acc EXCEPT !.cur = Some([Name |-> <<>>, Columns |-> <<>>, Rows |-> <<>>])]
    ELSE acc

\* a line that takes none of the three branches of the loop leaves doc and
\* currentTable as they are
Skipped(acc, line) == acc

\* one iteration of the loop of transform: acc is [Tables, cur], cur the
\* currentTable pointer
TransformLine(acc, line) ==
    IF line.TableHeader # None
    THEN [Tables |-> Sealed(acc),
          cur |-> Some([Name |-> line.TableHeader[1].Name, Columns |-> <<>>, Rows |-> <<>>])]
    ELSE IF line.SchemaDef # None /\ acc.cur # None
    THEN LET cols == line.SchemaDef[1].Columns
             new == [k \in 1..Len(cols) |-> [Name |-> cols[k].Name, Type |-> formatType(cols[k])]]
         IN  [acc EXCEPT !.cur = Some([acc.cur[1] EXCEPT !.Columns = @ \o new])]
    ELSE IF line.DataRow # None /\ acc.cur # None
    THEN LET fs == line.DataRow[1].Fields
             row == [k \in 1..Len(fs) |-> cleanField(fs[k])]
         IN  [acc EXCEPT !.cur = Some([acc.cur[1] EXCEPT !.Rows = Append(@, row)])]
    ELSE Skipped(acc, line)

RECURSIVE TransformFold(_, _, _)
TransformFold(acc, lines, i) ==
    IF i > Len(lines) THEN acc ELSE TransformFold(TransformLine(acc, lines[i]), lines, i + 1)

\* after the loop: the last current table, if any, is appended
Flush(acc) == [Tables |-> Sealed(acc)]

transform(f) == Flush(TransformFold([Tables |-> <<>>, cur |-> None], f.Lines, 1))

\* ParseString as it would be if it built a Document from the partial parse
\* tree that comes back with a parse error
ParseString_partial(s) ==
    With(parserParseString(s), LAMBDA parsed :
        [doc |-> Some(transform(parsed.file)), err |-> ~parsed.ok])

\* ParseString: nil and an error when the parse fails, otherwise the
\* Document built from the whole parse tree and a nil error
ParseString(s) ==
    With(parserParseString(s), LAMBDA parsed :
        IF ~parsed.ok THEN [doc |-> None, err |-> TRUE]
        ELSE [doc |-> Some(transform(parsed.file)), err |-> FALSE])

(***************************************************************************)
(* The inputs of the model.  An input is written line by line: src is the  *)
(* sequence of the lines as their writer meant them (by index into         *)
(* SourceLines), input the text handed to ParseString.  Each source line   *)
(* carries what the format says it declares.                               *)
(***************************************************************************)
SourceLines == <<
    [kind |-> "header", text |-> <<"#", "!", " ", "U", "s", "e", "r", NL>>,
     name |-> <<"U", "s", "e", "r">>, cols |-> <<>>, vals |-> <<>>],
    [kind |-> "header", text |-> <<"#", "!", " ", "P", "o", "s", "t", NL>>,
     name |-> <<"P", "o", "s", "t">>, cols |-> <<>>, vals |-> <<>>],
    [kind |-> "schema",
     text |-> <<"#", "@", " ", "i", "d", ":", "u", "i", "n", "t", ",", " ",
                "n", "a", "m", "e", ":", "s", "t", "r", NL>>,
     name |-> <<>>,
     cols |-> <<[Name |-> <<"i", "d">>, Type |-> <<"u", "i", "n", "t">>],
                [Name |-> <<"n", "a", "m", "e">>, Type |-> <<"s", "t", "r">>]>>,
     vals |-> <<>>],
    [kind |-> "row", text |-> <<"1", ",", " ", "A", "l", "i", "c", "e", NL>>,
     name |-> <<>>, cols |-> <<>>,
     vals |-> <<VInt(FALSE, <<"1">>), VStr(<<"A", "l", "i", "c", "e">>)>>],
    [kind |-> "comment", text |-> <<"#", " ", "n", "o", "t", "e", NL>>,
     name |-> <<>>, cols |-> <<>>, vals |-> <<>>],
    [kind |-> "comment", text |-> <<"#", NL>>,
     name |-> <<>>, cols |-> <<>>, vals |-> <<>>],
    [kind |-> "blank", text |-> <<NL>>,
     name |-> <<>>, cols |-> <<>>, vals |-> <<>>],
    [kind |-> "invalid", text |-> <<QUOTE, "a", QUOTE, " ", "b", NL>>,
     name |-> <<>>, cols |-> <<>>, vals |-> <<>>]>>

LineIds == 1..Len(SourceLines)

Inputs == UNION {[1..n -> LineIds] : n \in 0..MaxLines}

\* the text of the lines ls, one after the other
RECURSIVE Flatten(_)
Flatten(ls) == IF Len(ls) = 0 THEN <<>> ELSE SourceLines[Head(ls)].text \o Flatten(Tail(ls))

\* the lines of ls whose kind is not k, in order
RECURSIVE Without(_, _)
Without(ls, k) ==
    IF Len(ls) = 0 THEN <<>>
    ELSE IF SourceLines[Head(ls)].kind = k THEN Without(Tail(ls), k)
    ELSE <<Head(ls)>> \o Without(Tail(ls), k)

(***************************************************************************)
(* Fields, for the specification of cleanField.  ftext is the literal text *)
(* of one field and fquoted says how it is written in the data row.        *)
(***************************************************************************)
CoreAlphabet == {"1", "-", "+", ".", "e"}

Words == {<<"n", "u", "l", "l">>, <<"N", "U", "L", "L">>, <<"N", "u", "l", "l">>,
          <<"t", "r", "u", "e">>, <<"T", "R", "U", "E">>, <<"F", "a", "l", "s", "e">>,
          <<"f", "a", "l", "s", "e">>, <<"i", "n", "f">>, <<"n", "a", "n">>,
          <<"a", "b", "c">>, <<"0", "0", "7", "a", "b", "c">>,
          <<"1", "9", ".", "9", "9">>, <<"A", "l", "i", "c", "e">>,
          <<"M", "y", " ", "P", "o", "s", "t">>,
          <<"9", "2", "2", "3", "3", "7", "2", "0", "3", "6",
            "8", "5", "4", "7", "7", "5", "8", "0", "8">>}

Cores == UNION {[1..n -> CoreAlphabet] : n \in 0..MaxCore} \cup Words

Pads == {<<>>, <<" ">>}

FieldTexts == {a \o c \o b : a \in Pads, c \in Cores, b \in Pads}

\* a quoted field: every quote doubled, the whole between two quotes
RECURSIVE EscapeQuotes(_)
EscapeQuotes(s) ==
    IF Len(s) = 0 THEN <<>>
    ELSE IF Head(s) = QUOTE THEN <<QUOTE, QUOTE>> \o EscapeQuotes(Tail(s))
    ELSE <<Head(s)>> \o EscapeQuotes(Tail(s))

\* the data row that holds the one field
FieldSource(text, quoted) ==
    (IF quoted THEN <<QUOTE>> \o EscapeQuotes(text) \o <<QUOTE>> ELSE text) \o <<NL>>

\* the only field of the only line, a data row, of the parse r; None when
\* the parse is not one data row of one field
OnlyField(r) ==
    IF /\ r.ok
       /\ Len(r.file.Lines) = 1
       /\ r.file.Lines[1].DataRow # None
       /\ Len(r.file.Lines[1].DataRow[1].Fields) = 1
    THEN Some(r.file.Lines[1].DataRow[1].Fields[1])
    ELSE None

\* the value of the only field of the data row `row`, as transform computes
\* it for a row of the current table
ClassifyField(row) ==
    With(OnlyField(parserParseString(row)), LAMBDA f :
        IF f = None THEN None ELSE Some(cleanField(f[1])))

(***************************************************************************)
(* Column definitions, for the specification of columnDef and formatType.  *)
(* A column source is a column definition as its writer composed it: the   *)
(* name, the base type keyword as spelled, the parameters with their       *)
(* separators (none: no parentheses) and the modifier suffix.              *)
(***************************************************************************)
NoColumn == [name |-> <<>>, base |-> <<>>, vals |-> <<>>, seps |-> <<>>, suffix |-> <<>>]

ColumnNames == {<<"i", "d">>, <<"C", "a", "f", "U+00E9">>, <<"U+540D">>,
                <<"d", "a", "t", "e">>}

\* strings.ToUpper on a keyword
ToUpper(s) ==
    [i \in 1..Len(s) |->
        IF s[i] \in Lower THEN UpperSeq[CHOOSE k \in 1..26 : LowerSeq[k] = s[i]] ELSE s[i]]

\* the keyword with its first letter in upper case
Capitalised(s) == [i \in 1..Len(s) |-> IF i = 1 THEN ToUpper(s)[1] ELSE s[i]]

Keywords == {TypeNames[k] : k \in 1..Len(TypeNames)}

Casings(kw) == {kw, ToUpper(kw), Capitalised(kw)}

\* columns of every keyword in three casings, without parameters or suffix
KeywordColumns ==
    {[name |-> n, base |-> b, vals |-> <<>>, seps |-> <<>>, suffix |-> <<>>] :
        n \in ColumnNames, b \in UNION {Casings(kw) : kw \in Keywords}}

ParamValues == {<<"1", "0">>, <<"a">>}

ParamSeps == {<<",">>, <<".">>, <<"|">>, <<" ", "|", " ">>}

Suffixes == {<<>>, <<"[", "]">>, <<"?">>, <<"[", "]", "?">>, <<"?", "[", "]">>}

ParamBases == {<<"i", "n", "t">>, <<"D", "e", "c", "i", "m", "a", "l">>,
               <<"r", "e", "f">>, <<"e", "n", "u", "m">>}

\* columns with 0 .. MaxParams parameters and every suffix
ParamColumns ==
    UNION {{[name |-> <<"x">>, base |-> b, vals |-> v, seps |-> p, suffix |-> x] :
               b \in ParamBases, v \in [1..k -> ParamValues],
               p \in [1..(IF k = 0 THEN 0 ELSE k - 1) -> ParamSeps], x \in Suffixes} :
           k \in 0..MaxParams}

ColumnSources == KeywordColumns \cup ParamColumns

\* the parameters as written: v1 sep1 v2 sep2 ... vk
RECURSIVE ParamsText(_, _, _)
ParamsText(vals, seps, k) ==
    IF k > Len(vals) THEN <<>>
    ELSE vals[k] \o (IF k < Len(vals) THEN seps[k] ELSE <<>>) \o ParamsText(vals, seps, k + 1)

\* the column definition as written
ColumnText(c) ==
    c.name \o <<":">> \o c.base
    \o (IF Len(c.vals) = 0 THEN <<>> ELSE <<"(">> \o ParamsText(c.vals, c.seps, 1) \o <<")">>)
    \o c.suffix

\* a table header line and the schema-def line of the one column
SchemaInput(c) ==
    <<"#", "!", " ", "T", NL>> \o <<"#", "@", " ">> \o ColumnText(c) \o <<NL>>

\* the columnDef node of the column text when it is followed by the end of
\* the line: the production columnDef on the tokens of the text, as
\* schemaDef applies it to its first column; None when the text does not
\* lex or is not one column definition
ColumnNode(toks, c) ==
    IF c.ok /\ IsType(Tok(toks, c.next), "Newline") THEN Some(c.val) ELSE None

ResolveColumn(text) ==
    With(Lex(text \o <<NL>>), LAMBDA l :
        IF ~l.ok THEN None ELSE ColumnNode(l.toks, ParseColumnDef(l.toks, 1)))

(***************************************************************************)
(* Specification Spec: one call of ParseString on an input.                *)
(***************************************************************************)
FieldIdle ==
    ftext = <<>> /\ fquoted = FALSE /\ fpc = "idle" /\ fval = None /\ flit = None

ColumnIdle == csrc = NoColumn /\ cpc = "idle" /\ cdef = None /\ ctype = None

ParseIdle == src = <<>> /\ input = <<>> /\ pc = "idle" /\ doc = None /\ err = FALSE

JsonIdle ==
    jdoc = None /\ jpretty = FALSE /\ jpc = "idle" /\ jout = None /\ jerr = FALSE

CallsIdle == calls = <<>>

TransformIdle ==
    tlines = <<>> /\ ti = 0 /\ tacc = None /\ tpc = "idle" /\ tdoc = None

RowIdle == rfields = <<>> /\ rpc = "idle" /\ rvals = None

Init ==
    /\ src \in Inputs
    /\ input = Flatten(src)
    /\ pc = "start"
    /\ doc = None
    /\ err = FALSE
    /\ FieldIdle
    /\ ColumnIdle
    /\ JsonIdle
    /\ CallsIdle
    /\ TransformIdle
    /\ RowIdle

CallParseString ==
    /\ pc = "start"
    /\ \E r \in {ParseString(input)} : doc' = r.doc /\ err' = r.err
    /\ pc' = "done"
    /\ UNCHANGED <<src, input, fieldVars, columnVars, jsonVars, callVars, transformVars, rowVars>>

Next == CallParseString

Spec == Init /\ [][Next]_vars

(***************************************************************************)
(* Specification SpecField: one field of a data row is lexed, parsed and   *)
(* classified.                                                             *)
(***************************************************************************)
InitField ==
    /\ ParseIdle
    /\ ColumnIdle
    /\ JsonIdle
    /\ CallsIdle
    /\ TransformIdle
    /\ RowIdle
    /\ ftext \in FieldTexts
    /\ fquoted \in BOOLEAN
    /\ fpc = "start"
    /\ fval = None
    /\ flit = None

\* the data row of the one field is lexed and parsed; flit is the text that
\* cleanField classifies (its local `value`), fval the value it returns
CallCleanField ==
    /\ fpc = "start"
    /\ \E f \in {OnlyField(parserParseString(FieldSource(ftext, fquoted)))} :
           /\ flit' = (IF f = None THEN None ELSE Some(FieldValueText(f[1])))
           /\ fval' = (IF f = None THEN None ELSE Some(cleanField(f[1])))
    /\ fpc' = "done"
    /\ UNCHANGED <<parseVars, columnVars, ftext, fquoted, jsonVars, callVars, transformVars,
                   rowVars>>

NextField == CallCleanField

SpecField == InitField /\ [][NextField]_vars

(***************************************************************************)
(* Specification SpecQuoted: a literal text is written as a quoted field   *)
(* (EscapeQuotes, FieldSource) and the data row is lexed, parsed and       *)
(* classified.                                                             *)
(***************************************************************************)
QuoteAlphabet == {QUOTE, "a", " ", ","}

Literals == UNION {[1..n -> QuoteAlphabet] : n \in 0..MaxLiteral}

InitQuoted ==
    /\ ParseIdle
    /\ ColumnIdle
    /\ JsonIdle
    /\ CallsIdle
    /\ TransformIdle
    /\ RowIdle
    /\ ftext \in Literals
    /\ fquoted = TRUE
    /\ fpc = "start"
    /\ fval = None
    /\ flit = None

SpecQuoted == InitQuoted /\ [][NextField]_vars

(***************************************************************************)
(* Specification SpecColumn: a schema-def line of one column definition.   *)
(* ParseString is called on the header and the schema-def line, and the    *)
(* column definition is resolved as transform resolves the columns of a    *)
(* schemaDef node: Column{Name: col.Name, Type: formatType(col)}.           *)
(***************************************************************************)
InitColumn ==
    /\ csrc \in ColumnSources
    /\ src = <<>>
    /\ input = SchemaInput(csrc)
    /\ pc = "start"
    /\ doc = None
    /\ err = FALSE
    /\ FieldIdle
    /\ JsonIdle
    /\ CallsIdle
    /\ TransformIdle
    /\ RowIdle
    /\ cpc = "start"
    /\ cdef = None
    /\ ctype = None

CallFormatType ==
    /\ cpc = "start"
    /\ \E c \in {ResolveColumn(ColumnText(csrc))} :
           /\ cdef' = c
           /\ ctype' = (IF c = None THEN None ELSE Some(formatType(c[1])))
    /\ cpc' = "done"
    /\ UNCHANGED <<parseVars, fieldVars, csrc, jsonVars, callVars, transformVars, rowVars>>

NextColumn == CallParseString \/ CallFormatType

SpecColumn == InitColumn /\ [][NextColumn]_vars

(***************************************************************************)
(* What the source lines of an input declare, for the claims below.        *)
(***************************************************************************)
Kind(ls, i) == SourceLines[ls[i]].kind

Tables == doc[1].Tables

\* the positions in ls of the lines of kind k, in order
Positions(ls, k) ==
    LET RECURSIVE From(_)
        From(i) == IF i > Len(ls) THEN <<>>
                   ELSE IF Kind(ls, i) = k THEN <<i>> \o From(i + 1)
                   ELSE From(i + 1)
    IN  From(1)

HeaderNames(ls) ==
    [j \in 1..Len(Positions(ls, "header")) |-> SourceLines[ls[Positions(ls, "header")[j]]].name]

\* the values of the data-row lines of the j-th table block of ls
BlockRows(ls, j) ==
    LET hs == Positions(ls, "header")
        first == hs[j] + 1
        last == IF j < Len(hs) THEN hs[j + 1] - 1 ELSE Len(ls)
        RECURSIVE From(_)
        From(i) == IF i > last THEN <<>>
                   ELSE IF Kind(ls, i) = "row" THEN <<SourceLines[ls[i]].vals>> \o From(i + 1)
                   ELSE From(i + 1)
    IN  From(first)

RECURSIVE SumRows(_)
SumRows(ts) == IF Len(ts) = 0 THEN 0 ELSE Len(Head(ts).Rows) + SumRows(Tail(ts))

\* the number of data-row lines of ls after its first header
RowsAfterFirstHeader(ls) ==
    LET hs == Positions(ls, "header") IN
    IF Len(hs) = 0 THEN 0
    ELSE Cardinality({i \in (hs[1] + 1)..Len(ls) : Kind(ls, i) = "row"})

\* a header line, a schema-def line and then data rows only
IsBasicTable(ls) ==
    /\ Len(ls) >= 2
    /\ Kind(ls, 1) = "header"
    /\ Kind(ls, 2) = "schema"
    /\ \A i \in 3..Len(ls) : Kind(ls, i) = "row"

\* what a result of ParseString shows of its tables: their number and the
\* number of columns and rows of each
Shape(r) ==
    IF r.err THEN [failed |-> TRUE, tables |-> <<>>]
    ELSE [failed |-> FALSE,
          tables |-> [j \in 1..Len(r.doc[1].Tables) |->
                         [cols |-> Len(r.doc[1].Tables[j].Columns),
                          rows |-> Len(r.doc[1].Tables[j].Rows)]]]

(***************************************************************************)
(* Claims checked under Spec.                                              *)
(***************************************************************************)
\* C1: an input of one table-header line, one schema-def line and n data
\* rows parses to exactly one table with the header's name, the declared
\* columns in order with their canonical types, and the n rows in order.
C1_BasicTable ==
    (pc = "done" /\ IsBasicTable(src)) =>
        /\ ~err
        /\ doc # None
        /\ Len(Tables) = 1
        /\ Tables[1].Name = SourceLines[src[1]].name
        /\ Tables[1].Columns = SourceLines[src[2]].cols
        /\ Tables[1].Rows = [i \in 1..(Len(src) - 2) |-> SourceLines[src[i + 2]].vals]

\* C2: for an input that parses, the i-th table of the Document is named by
\* the i-th table-header line of the source text.
C2_TableOrder ==
    (pc = "done" /\ ~err) =>
        [j \in 1..Len(Tables) |-> Tables[j].Name] = HeaderNames(src)

\* C3: the Document holds exactly one table per table-header line, and a
\* header followed directly by another header or by the end of the input
\* gives a table without columns and rows.
C3_OneTablePerHeader ==
    (pc = "done" /\ ~err) =>
        /\ Len(Tables) = Len(Positions(src, "header"))
        /\ \A j \in 1..Len(Tables) :
               LET p == Positions(src, "header")[j] IN
               (p = Len(src) \/ Kind(src, p + 1) = "header") =>
                   Tables[j].Columns = <<>> /\ Tables[j].Rows = <<>>

\* C4: every data-row line after a header is one Row of the table of the
\* most recent header, in source order, and the rows of all tables together
\* are as many as the data-row lines after the first header.
C4_RowsAppended ==
    (pc = "done" /\ ~err) =>
        /\ SumRows(Tables) = RowsAfterFirstHeader(src)
        /\ Len(Tables) = Len(Positions(src, "header"))
        /\ \A j \in 1..Len(Tables) : Tables[j].Rows = BlockRows(src, j)

\* C5: an input with comment lines has as many tables, and in each table as
\* many columns and rows, as the same input without its comment lines.
C5_CommentTransparent ==
    pc = "done" =>
        \A r \in {ParseString(Flatten(Without(src, "comment")))} :
            ~r.err => Shape([doc |-> doc, err |-> err]) = Shape(r)

\* C6: an input with blank lines has as many tables, columns and rows as the
\* same input without its blank lines; no blank line becomes a row.
C6_BlankTransparent ==
    pc = "done" =>
        \A r \in {ParseString(Flatten(Without(src, "blank")))} :
            ~r.err => Shape([doc |-> doc, err |-> err]) = Shape(r)

\* C7: ParseString returns either a Document and no error or no Document and
\* an error; when the input violates the grammar it returns no Document,
\* whatever lines were parsed before the violation.
C7_Atomic ==
    pc = "done" =>
        /\ (err /\ doc = None) \/ (~err /\ doc # None)
        /\ ~parserParseString(input).ok => (err /\ doc = None)

\* C7 happens: a parse that failed after some lines had been matched.
C7_Witness ==
    /\ pc = "done"
    /\ err
    /\ doc = None
    /\ Len(parserParseString(input).file.Lines) > 0

\* the lines ls are a header line followed by header, schema-def and
\* data-row lines only, with a data row among them
IsTableText(ls) ==
    /\ Len(ls) >= 1
    /\ Kind(ls, 1) = "header"
    /\ \A i \in 1..Len(ls) : Kind(ls, i) \in {"header", "schema", "row"}
    /\ \E i \in 1..Len(ls) : Kind(ls, i) = "row"

\* C20: a data row is never rejected, padded or truncated because its
\* number of fields differs from the number of declared columns: every
\* data-row line under a header, with or without a schema-def line, is a
\* Row of that table with one value per field of the line.
C20_ArityNotEnforced ==
    (pc = "done" /\ IsTableText(src)) =>
        /\ ~err
        /\ doc # None
        /\ Len(Tables) = Len(Positions(src, "header"))
        /\ \A j \in 1..Len(Tables) :
               /\ Len(Tables[j].Rows) = Len(BlockRows(src, j))
               /\ \A i \in 1..Len(Tables[j].Rows) :
                      Len(Tables[j].Rows[i]) = Len(BlockRows(src, j)[i])

(***************************************************************************)
(* Claims checked under SpecField.                                         *)
(***************************************************************************)
NullWord == <<"n", "u", "l", "l">>

TrueWord == <<"t", "r", "u", "e">>

FalseWord == <<"f", "a", "l", "s", "e">>

IsNullText(t) == t = <<>> \/ ToLower(t) = NullWord

IsBoolText(t) == ToLower(t) = TrueWord \/ ToLower(t) = FalseWord

\* -?digits  or  -?digits.digits
NumericPattern(t) ==
    LET sign == IF At(t, 1) = "-" THEN 1 ELSE 0
        whole == RunIn(t, 1 + sign, Digits)
        rest == sign + whole
    IN  /\ whole > 0
        /\ \/ rest = Len(t)
           \/ /\ At(t, rest + 1) = "."
              /\ RunIn(t, rest + 2, Digits) > 0
              /\ rest + 1 + RunIn(t, rest + 2, Digits) = Len(t)

\* C8: a field is a number only when its trimmed text is -?digits or
\* -?digits.digits; any other text that is neither null nor a boolean is
\* the string of the trimmed text.
C8_NumberOnlyByPattern ==
    fpc = "done" =>
        LET t == TrimSpace(ftext) IN
        /\ fval # None
        /\ fval[1].kind \in {"int", "float"} => NumericPattern(t)
        /\ (~IsNullText(t) /\ ~IsBoolText(t) /\ ~NumericPattern(t)) => fval[1] = VStr(t)

\* C9: a field whose text is empty or only whitespace, or whose trimmed text
\* is null in any letter case, is classified as null.
C9_EmptyIsNull ==
    fpc = "done" => (IsNullText(TrimSpace(ftext)) => fval = Some(VNull))

\* C10: a field whose trimmed text is true or false in any letter case is
\* the corresponding boolean, and no other text is a boolean.
C10_Booleans ==
    fpc = "done" =>
        LET t == TrimSpace(ftext) IN
        /\ ToLower(t) = TrueWord => fval = Some(VBool(TRUE))
        /\ ToLower(t) = FalseWord => fval = Some(VBool(FALSE))
        /\ (fval # None /\ fval[1].kind = "bool") => IsBoolText(t)

\* C11: a quoted field whose unescaped content is t and an unquoted field
\* whose text is t have the same value: the field as written and the same
\* text written the other way (quoted for unquoted, unquoted for quoted)
\* are classified alike.
C11_QuotedAsUnquoted ==
    fpc = "done" =>
        \A other \in {ClassifyField(FieldSource(ftext, ~fquoted))} : fval = other

Kinds == {"null", "bool", "int", "float", "string"}

\* -?digits
IntegerPattern(t) == NumericPattern(t) /\ \A k \in 1..Len(t) : t[k] # "."

\* the digits of the text t, sign aside, denote a number of the int64 range
FitsInt64(t) == InInt64(StripZeros(Unsigned(t)), IsNeg(t))

\* C12: cleanField never fails and gives exactly one of null, boolean,
\* integer, float and string for the text it classifies, testing in this
\* order: null text is null, then true/false text is a boolean, then text
\* of digits within the int64 range is an integer and other numeric text a
\* float, and a string is returned only for text that none of the earlier
\* rules takes.
C12_TotalOrdered ==
    fpc = "done" =>
        /\ fval # None /\ flit # None
        /\ fval[1].kind \in Kinds
        /\ IsNullText(flit[1]) => fval[1] = VNull
        /\ (~IsNullText(flit[1]) /\ IsBoolText(flit[1])) => fval[1].kind = "bool"
        /\ (IntegerPattern(flit[1]) /\ FitsInt64(flit[1])) => fval[1].kind = "int"
        /\ (NumericPattern(flit[1]) /\ ~(IntegerPattern(flit[1]) /\ FitsInt64(flit[1])))
               => fval[1].kind = "float"
        /\ fval[1].kind = "string" =>
               /\ fval[1].s = flit[1]
               /\ ~IsNullText(flit[1]) /\ ~IsBoolText(flit[1]) /\ ~NumericPattern(flit[1])

\* C12 happens: text that the integer, the float and the string rule would
\* all take has been classified, as an integer.
C12_Witness ==
    /\ fpc = "done"
    /\ flit = Some(<<"1">>)
    /\ fval # None
    /\ fval[1].kind = "int"

(***************************************************************************)
(* Claims checked under SpecQuoted.                                        *)
(***************************************************************************)
\* C13: a literal text written as a quoted field, every quote doubled and
\* the whole between one pair of quotes, is recovered exactly as the text
\* of the field once the row is parsed and the quotes are undone.
C13_QuotedRoundTrip ==
    (fpc = "done" /\ fquoted) => flit = Some(ftext)

\* C13 happens: a literal that holds a quote has been written, parsed and
\* recovered.
C13_Witness ==
    /\ fpc = "done"
    /\ fquoted
    /\ \E k \in 1..Len(ftext) : ftext[k] = QUOTE
    /\ flit = Some(ftext)

(***************************************************************************)
(* Claims checked under SpecColumn.                                        *)
(***************************************************************************)
\* s starts with the text p
HasPrefix(s, p) == Len(p) <= Len(s) /\ \A k \in 1..Len(p) : s[k] = p[k]

\* the column is named id and is a keyword in some casing alone, or a
\* decimal with precision and scale
IsKeywordCase(c) ==
    /\ c.name = <<"i", "d">> \/ c.name = <<"x">>
    /\ c.suffix = <<>>
    /\ \/ Len(c.vals) = 0
       \/ /\ ToLower(c.base) = <<"d", "e", "c", "i", "m", "a", "l">>
          /\ c.vals = <<<<"1", "0">>, <<"1", "0">>>>
          /\ c.seps = <<<<",">>>>

\* C14: for a column whose base-type keyword is written in any letter case
\* the schema line parses and the table has the column, its type string
\* starting with the keyword in lower case.
C14_KeywordLowercase ==
    (pc = "done" /\ IsKeywordCase(csrc)) =>
        /\ ~err
        /\ doc # None
        /\ Len(Tables) = 1
        /\ Len(Tables[1].Columns) = 1
        /\ HasPrefix(Tables[1].Columns[1].Type, ToLower(csrc.base))

\* C15: a column name that starts with a letter or underscore and goes on
\* with letters, digits or underscores, non-ASCII letters included, is
\* accepted and returned exactly as it is spelled in the source.
C15_NamesAsSpelled ==
    (cpc = "done" /\ csrc \in KeywordColumns) =>
        /\ cdef # None
        /\ cdef[1].Name = csrc.name

\* the text x holds the character c
Holds(x, c) == \E k \in 1..Len(x) : x[k] = c

\* the modifiers of the suffix x in canonical order: [] before ?
CanonicalSuffix(x) ==
    (IF Holds(x, "[") THEN <<"[", "]">> ELSE <<>>) \o (IF Holds(x, "?") THEN <<"?">> ELSE <<>>)

\* C16: a type with the array suffix and the nullable suffix in either
\* order, one of them alone or neither is a column definition, and its type
\* string has [] before ? whatever the order in the source.
C16_SuffixEitherOrder ==
    (cpc = "done" /\ csrc \in ParamColumns /\ Len(csrc.vals) = 0) =>
        /\ ctype # None
        /\ ctype[1] = ToLower(csrc.base) \o CanonicalSuffix(csrc.suffix)

IsInteger(v) == Len(v) > 0 /\ AllDigits(v)

IsIdentifier(v) == Len(v) > 0 /\ IdentStart(v[1]) /\ \A k \in 2..Len(v) : IdentCont(v[k])

BarSeps == {<<"|">>, <<" ", "|", " ">>}

TakesParams(base) ==
    ToLower(base) \in {<<"d", "e", "c", "i", "m", "a", "l">>, <<"r", "e", "f">>,
                       <<"e", "n", "u", "m">>}

\* the parameters of the column source are those its base type requires:
\* decimal (int , int), ref (identifier . identifier), enum (identifier
\* ( | identifier )* ), and none for every other base type
ParamsFit(c) ==
    IF ToLower(c.base) = <<"d", "e", "c", "i", "m", "a", "l">>
    THEN Len(c.vals) = 2 /\ IsInteger(c.vals[1]) /\ IsInteger(c.vals[2]) /\ c.seps = <<<<",">>>>
    ELSE IF ToLower(c.base) = <<"r", "e", "f">>
    THEN Len(c.vals) = 2 /\ IsIdentifier(c.vals[1]) /\ IsIdentifier(c.vals[2])
         /\ c.seps = <<<<".">>>>
    ELSE IF ToLower(c.base) = <<"e", "n", "u", "m">>
    THEN /\ Len(c.vals) >= 1
         /\ \A k \in 1..Len(c.vals) : IsIdentifier(c.vals[k])
         /\ \A k \in 1..Len(c.seps) : c.seps[k] \in BarSeps
    ELSE Len(c.vals) = 0

\* C17: a column definition whose parameters are not those its base type
\* requires is a grammar violation, and a resolved column's type string has
\* parameters exactly when its base type requires them.
C17_ParamsValidated ==
    (cpc = "done" /\ csrc \in ParamColumns) =>
        /\ ~ParamsFit(csrc) => cdef = None
        /\ ctype # None => (Holds(ctype[1], "(") <=> TakesParams(csrc.base))

\* the values vs from the k-th on, joined with " | "
RECURSIVE BarJoined(_, _)
BarJoined(vs, k) ==
    IF k > Len(vs) THEN <<>>
    ELSE vs[k] \o (IF k < Len(vs) THEN <<" ", "|", " ">> ELSE <<>>) \o BarJoined(vs, k + 1)

\* the canonical type string of a column source whose parameters fit its
\* base type: decimal(p,s), ref(T.c), enum(v1 | v2 | ...), or the keyword
CanonicalType(c) ==
    (IF ToLower(c.base) = <<"d", "e", "c", "i", "m", "a", "l">>
     THEN ToLower(c.base) \o <<"(">> \o c.vals[1] \o <<",">> \o c.vals[2] \o <<")">>
     ELSE IF ToLower(c.base) = <<"r", "e", "f">>
     THEN ToLower(c.base) \o <<"(">> \o c.vals[1] \o <<".">> \o c.vals[2] \o <<")">>
     ELSE IF ToLower(c.base) = <<"e", "n", "u", "m">>
     THEN ToLower(c.base) \o <<"(">> \o BarJoined(c.vals, 1) \o <<")">>
     ELSE ToLower(c.base))
    \o CanonicalSuffix(c.suffix)

\* C18: the type string of a column of the returned table is the canonical
\* rendering of its declared type: decimal(p,s), ref(T.c), and for enum the
\* values in declaration order joined with " | ", whatever the spacing in
\* the source.
C18_CanonicalType ==
    (/\ pc = "done"
     /\ csrc \in ParamColumns
     /\ TakesParams(csrc.base)
     /\ ParamsFit(csrc)
     /\ csrc.suffix = <<>>) =>
        /\ ~err
        /\ doc # None
        /\ Len(Tables) = 1
        /\ Len(Tables[1].Columns) = 1
        /\ Tables[1].Columns[1].Type = CanonicalType(csrc)

\* the type clause of the column source is already its canonical string
IsCanonical(c) ==
    /\ ParamsFit(c)
    /\ c.base \o (IF Len(c.vals) = 0 THEN <<>>
                  ELSE <<"(">> \o ParamsText(c.vals, c.seps, 1) \o <<")">>) \o c.suffix
       = CanonicalType(c)

\* C19: a column whose type clause is a canonical type string (any base
\* type, parameters and modifiers) resolves to the descriptor it denotes
\* and renders to exactly that string again.
C19_TypeRoundTrip ==
    (cpc = "done" /\ IsCanonical(csrc) /\ csrc.name \notin Keywords) =>
        /\ cdef # None
        /\ cdef[1].Params = csrc.vals
        /\ cdef[1].Array = Holds(csrc.suffix, "[")
        /\ cdef[1].Nullable = Holds(csrc.suffix, "?")
        /\ ctype = Some(CanonicalType(csrc))

(***************************************************************************)
(* ToJSON: json.Marshal and json.MarshalIndent of a Document.  A JSON node *)
(* is a literal (its text), an array (its items) or an object (its         *)
(* members, each a key and a node, in the order of the struct fields).     *)
(***************************************************************************)
DigitSeq == <<"0", "1", "2", "3", "4", "5", "6", "7", "8", "9">>

\* the decimal digits of a natural number
RECURSIVE NatToDigits(_)
NatToDigits(n) ==
    IF n < 10 THEN <<DigitSeq[n + 1]>>
    ELSE NatToDigits(n \div 10) \o <<DigitSeq[(n % 10) + 1]>>

Zeros(n) == [k \in 1..n |-> "0"]

\* a digit string without its trailing zeros
RECURSIVE StripTrailingZeros(_)
StripTrailingZeros(s) ==
    IF Len(s) > 0 /\ s[Len(s)] = "0" THEN StripTrailingZeros(Slice(s, 1, Len(s) - 1)) ELSE s

\* the float64 of a decimal text as sign, significant digits and the place
\* of the point: the value is 0.digits times 10^point (digits is empty for
\* zero).  `all` is the mantissa's digits, `lead` of them leading zeros and
\* `whole` of them before the point.  Exact for up to 15 significant
\* digits, which is where a float64 gives the decimal back (JsonTexts).
DecimalOf(neg, all, lead, whole, expo) ==
    [neg |-> neg,
     digits |-> StripTrailingZeros(Slice(all, lead + 1, Len(all) - lead)),
     point |-> whole - lead + expo]

FloatDecimalOf(s, m, x) ==
    DecimalOf(IsNeg(s), m.whole \o m.frac, RunIn(m.whole \o m.frac, 1, {"0"}), Len(m.whole),
              IF x.neg THEN 0 - x.value ELSE x.value)

FloatDecimal(s) ==
    With(ScanMantissa(s, SignLen(s) + 1), LAMBDA m : FloatDecimalOf(s, m, ScanExponent(s, m.next)))

\* strconv's format 'f' with the shortest digits
FormatFixed(d, p) ==
    IF p <= 0 THEN <<"0", ".">> \o Zeros(0 - p) \o d
    ELSE IF p >= Len(d) THEN d \o Zeros(p - Len(d))
    ELSE Slice(d, 1, p) \o <<".">> \o Slice(d, p + 1, Len(d) - p)

\* strconv's format 'e' with the shortest digits, as encoding/json cleans
\* it up: e-07 becomes e-7
FormatExp(d, e) ==
    <<d[1]>> \o (IF Len(d) > 1 THEN <<".">> \o Slice(d, 2, Len(d) - 1) ELSE <<>>)
             \o <<"e">>
             \o (IF e < 0 THEN <<"-">> \o NatToDigits(0 - e) ELSE <<"+">> \o NatToDigits(e))

\* encoding/json writes a float64 in format 'f', and in format 'e' when its
\* magnitude is below 1e-6 or at least 1e21
EncodeFloat(f) ==
    (IF f.neg THEN <<"-">> ELSE <<>>) \o
    (IF Len(f.digits) = 0 THEN <<"0">>
     ELSE IF f.point - 1 < 0 - 6 \/ f.point - 1 >= 21 THEN FormatExp(f.digits, f.point - 1)
     ELSE FormatFixed(f.digits, f.point))

\* encoding/json escapes the quote, the backslash, the control characters
\* and, for HTML, the characters < > &
EscapeChar(c) ==
    IF c = QUOTE THEN <<"\\", QUOTE>>
    ELSE IF c = "\\" THEN <<"\\", "\\">>
    ELSE IF c = NL THEN <<"\\", "n">>
    ELSE IF c = CR THEN <<"\\", "r">>
    ELSE IF c = TAB THEN <<"\\", "t">>
    ELSE IF c = "<" THEN <<"\\", "u", "0", "0", "3", "c">>
    ELSE IF c = ">" THEN <<"\\", "u", "0", "0", "3", "e">>
    ELSE IF c = "&" THEN <<"\\", "u", "0", "0", "2", "6">>
    ELSE <<c>>

RECURSIVE EscapeJSON(_)
EscapeJSON(s) == IF Len(s) = 0 THEN <<>> ELSE EscapeChar(Head(s)) \o EscapeJSON(Tail(s))

EncodeString(s) == <<QUOTE>> \o EscapeJSON(s) \o <<QUOTE>>

JsonLit(text) == [t |-> "lit", text |-> text]

JsonArr(items) == [t |-> "arr", items |-> items]

JsonObj(members) == [t |-> "obj", items |-> members]

\* a value of a row, a Go any: nil, bool, int64, float64 or string
JsonValue(v) ==
    IF v.kind = "null" THEN JsonLit(<<"n", "u", "l", "l">>)
    ELSE IF v.kind = "bool"
    THEN JsonLit(IF v.b THEN <<"t", "r", "u", "e">> ELSE <<"f", "a", "l", "s", "e">>)
    ELSE IF v.kind = "int" THEN JsonLit((IF v.neg THEN <<"-">> ELSE <<>>) \o v.digits)
    ELSE IF v.kind = "float" THEN JsonLit(EncodeFloat(FloatDecimal(v.text)))
    ELSE JsonLit(EncodeString(v.s))

JsonRow(row) == JsonArr([k \in 1..Len(row) |-> JsonValue(row[k])])

\* Column: `json:"name"`, `json:"type"`
JsonColumn(c) ==
    JsonObj(<<[key |-> <<"n", "a", "m", "e">>, val |-> JsonLit(EncodeString(c.Name))],
              [key |-> <<"t", "y", "p", "e">>, val |-> JsonLit(EncodeString(c.Type))]>>)

\* Table: `json:"name"`, `json:"columns"`, `json:"rows"`
JsonTable(t) ==
    JsonObj(<<[key |-> <<"n", "a", "m", "e">>, val |-> JsonLit(EncodeString(t.Name))],
              [key |-> <<"c", "o", "l", "u", "m", "n", "s">>,
               val |-> JsonArr([k \in 1..Len(t.Columns) |-> JsonColumn(t.Columns[k])])],
              [key |-> <<"r", "o", "w", "s">>,
               val |-> JsonArr([k \in 1..Len(t.Rows) |-> JsonRow(t.Rows[k])])]>>)

\* Document: `json:"tables"`
JsonDocument(d) ==
    JsonObj(<<[key |-> <<"t", "a", "b", "l", "e", "s">>,
               val |-> JsonArr([k \in 1..Len(d.Tables) |-> JsonTable(d.Tables[k])])]>>)

\* MarshalIndent(doc, "", "  ") starts each item on a line of its own, two
\* spaces deeper per level; Marshal writes no white space
Indent(pretty, depth) ==
    IF pretty THEN <<NL>> \o [k \in 1..(2 * depth) |-> " "] ELSE <<>>

RECURSIVE Render(_, _, _)
RECURSIVE RenderItems(_, _, _, _)

\* a member of an object is its key, a colon (and a space when indenting)
\* and its value; an item of an array is the item
RenderItem(node, item, pretty, depth) ==
    IF node.t = "obj"
    THEN EncodeString(item.key) \o <<":">> \o (IF pretty THEN <<" ">> ELSE <<>>)
                                \o Render(item.val, pretty, depth)
    ELSE Render(item, pretty, depth)

RenderItems(node, k, pretty, depth) ==
    IF k > Len(node.items) THEN <<>>
    ELSE (IF k > 1 THEN <<",">> ELSE <<>>) \o Indent(pretty, depth)
             \o RenderItem(node, node.items[k], pretty, depth)
             \o RenderItems(node, k + 1, pretty, depth)

\* an empty array is [] in both modes
Render(node, pretty, depth) ==
    IF node.t = "lit" THEN node.text
    ELSE (IF node.t = "obj" THEN <<"{">> ELSE <<"[">>)
         \o (IF Len(node.items) = 0 THEN <<>>
             ELSE RenderItems(node, 1, pretty, depth + 1) \o Indent(pretty, depth))
         \o (IF node.t = "obj" THEN <<"}">> ELSE <<"]">>)

\* encoding/json refuses a float64 that is NaN or an infinity
\* (UnsupportedValueError)
Unsupported(v) == v.kind = "float" /\ v.class # "finite"

HasUnsupported(d) ==
    \E t \in 1..Len(d.Tables) : \E r \in 1..Len(d.Tables[t].Rows) :
        \E k \in 1..Len(d.Tables[t].Rows[r]) : Unsupported(d.Tables[t].Rows[r][k])

\* ToJSON: the empty string and an error when Marshal fails, otherwise the
\* text and a nil error
ToJSON(d, pretty) ==
    IF HasUnsupported(d) THEN [json |-> <<>>, err |-> TRUE]
    ELSE [json |-> Render(JsonDocument(d), pretty, 0), err |-> FALSE]

(***************************************************************************)
(* Specification SpecJSON: the data row of one field is parsed, transform  *)
(* makes it the row of a table, and ToJSON serializes the Document.  The   *)
(* parse tree handed to transform is a tableHeader node followed by the    *)
(* lines parsed from the data row.                                         *)
(***************************************************************************)
TableLine(name) == [NoLine EXCEPT !.TableHeader = Some([Name |-> name])]

\* the Document of the table T whose lines are the lines parsed from text
TableOf(text) ==
    With(parserParseString(text), LAMBDA parsed :
        IF ~parsed.ok THEN None
        ELSE Some(transform([Lines |-> <<TableLine(<<"T">>)>> \o parsed.file.Lines])))

\* the field texts of at most 15 characters: a float64 gives a decimal of
\* up to 15 significant digits back as it was written
JsonTexts == {t \in FieldTexts : Len(t) <= 15}

InitJSON ==
    /\ ParseIdle
    /\ ColumnIdle
    /\ CallsIdle
    /\ TransformIdle
    /\ RowIdle
    /\ ftext \in JsonTexts
    /\ fquoted \in BOOLEAN
    /\ fpc = "start"
    /\ fval = None
    /\ flit = None
    /\ jdoc = None
    /\ jpretty \in BOOLEAN
    /\ jpc = "start"
    /\ jout = None
    /\ jerr = FALSE

CallTransform ==
    /\ jpc = "start"
    /\ jdoc' = TableOf(FieldSource(ftext, fquoted))
    /\ jpc' = "built"
    /\ UNCHANGED <<parseVars, fieldVars, columnVars, callVars, transformVars, rowVars,
                   jpretty, jout, jerr>>

CallToJSON ==
    /\ jpc = "built"
    /\ jdoc # None
    /\ \E r \in {ToJSON(jdoc[1], jpretty)} : jout' = Some(r.json) /\ jerr' = r.err
    /\ jpc' = "done"
    /\ UNCHANGED <<parseVars, fieldVars, columnVars, callVars, transformVars, rowVars,
                   jdoc, jpretty>>

NextJSON == CallCleanField \/ CallTransform \/ CallToJSON

SpecJSON == InitJSON /\ [][NextJSON]_vars

MaxCallLines == 2

Procs == {"call1", "call2"}

CallLineIds == {1, 4, 6, 8}

CallSources == UNION {[1..n -> CallLineIds] : n \in 0..MaxCallLines}

NewCall(ls) == [input |-> Flatten(ls), pc |-> "start", parsed |-> None, doc |-> None, err |-> FALSE]

InitCalls ==
    /\ ParseIdle
    /\ FieldIdle
    /\ ColumnIdle
    /\ JsonIdle
    /\ TransformIdle
    /\ RowIdle
    /\ \E ls \in [Procs -> CallSources] : calls = [p \in Procs |-> NewCall(ls[p])]

\* the parse tree and error of call p as they would be if the calls kept
\* them in one package-level place
ParseResult_shared(cs, p) == cs[CHOOSE q \in Procs : cs[q].parsed # None].parsed[1]

\* the parse tree and error call p works on: its own locals parsed, err
ParseResult(cs, p) == cs[p].parsed[1]

\* the two returns of ParseString
Returned(parsed) ==
    IF ~parsed.ok THEN [doc |-> None, err |-> TRUE]
    ELSE [doc |-> Some(transform(parsed.file)), err |-> FALSE]

\* parsed, err := parser.ParseString("", input)
CallParse(p) ==
    /\ calls[p].pc = "start"
    /\ calls' = [calls EXCEPT ![p].parsed = Some(parserParseString(calls[p].input)),
                              ![p].pc = "parsed"]
    /\ UNCHANGED <<parseVars, fieldVars, columnVars, jsonVars, transformVars, rowVars>>

\* if err != nil { return nil, ... }; return transform(parsed), nil
CallReturn(p) ==
    /\ calls[p].pc = "parsed"
    /\ \E r \in {Returned(ParseResult(calls, p))} :
           calls' = [calls EXCEPT ![p].doc = r.doc, ![p].err = r.err, ![p].pc = "done"]
    /\ UNCHANGED <<parseVars, fieldVars, columnVars, jsonVars, transformVars, rowVars>>

NextCalls == (\E p \in Procs : CallParse(p)) \/ (\E p \in Procs : CallReturn(p))

SpecCalls == InitCalls /\ [][NextCalls]_vars

IsNumberText(t) == Len(t) > 0 /\ MatchNumber(t, 1) = Len(t)

HasPoint(t) == \E k \in 1..Len(t) : t[k] = "."

\* parseInt / parseFloat of a text that matches the number expression: a
\* JavaScript number, written as the Go value the same JSON stands for (an
\* integer up to 2^53 exactly)
jsNumber(t, n) ==
    IF HasPoint(t) \/ ~n.ok THEN VFloat("finite", t) ELSE VInt(n.neg, n.digits)

jsClassify(trimmed) ==
    IF trimmed = <<>> \/ ToLower(trimmed) = <<"n", "u", "l", "l">> THEN VNull
    ELSE IF ToLower(trimmed) \in {<<"t", "r", "u", "e">>, <<"f", "a", "l", "s", "e">>}
    THEN VBool(ToLower(trimmed) = <<"t", "r", "u", "e">>)
    ELSE IF IsNumberText(trimmed) THEN jsNumber(trimmed, ParseInt(trimmed))
    ELSE VStr(trimmed)

\* helpers.cleanField(value)
jsCleanField(value) == IF value = <<>> THEN VNull ELSE jsClassify(TrimSpace(value))

\* parse-number: Double/parseDouble when the text holds a point, else
\* Long/parseLong; the text itself when that throws
cljParseNumber(s, n) ==
    IF HasPoint(s) THEN VFloat("finite", s)
    ELSE IF n.ok THEN VInt(n.neg, n.digits)
    ELSE VStr(s)

cljClassify(trimmed) ==
    IF trimmed = <<>> \/ ToLower(trimmed) = <<"n", "u", "l", "l">> THEN VNull
    ELSE IF ToLower(trimmed) \in {<<"t", "r", "u", "e">>, <<"f", "a", "l", "s", "e">>}
    THEN VBool(ToLower(trimmed) = <<"t", "r", "u", "e">>)
    ELSE IF IsNumberText(trimmed) THEN cljParseNumber(trimmed, ParseInt(trimmed))
    ELSE VStr(trimmed)

\* clean-field-value
cljCleanFieldValue(v) == IF v = <<>> THEN VNull ELSE cljClassify(TrimSpace(v))

\* clean-quoted-field: the first and the last quote removed, doubled quotes
\* undone
cljCleanQuotedField(s) == ReplaceAllQuotes(TrimSuffix(TrimPrefix(s, QUOTE), QUOTE))

\* the value transform-tree gives a field: a quoted field is unquoted, then
\* both kinds go through clean-field-value
cljFieldValue(text, quoted) ==
    IF quoted
    THEN cljCleanFieldValue(cljCleanQuotedField(<<QUOTE>> \o EscapeQuotes(text) \o <<QUOTE>>))
    ELSE cljCleanFieldValue(text)

\* C23: all parsers produce identical output: for every field text the Go
\* cleanField, the Clojure clean-field-value (quoted and unquoted fields)
\* and the JavaScript cleanField (unquoted fields) return the same value.
C23_ParsersAgree ==
    (fpc = "done" /\ fval # None) =>
        /\ fval[1] = cljFieldValue(ftext, fquoted)
        /\ ~fquoted => fval[1] = jsCleanField(ftext)

(***************************************************************************)
(* Specification SpecTransform: transform runs over a parse tree, one      *)
(* iteration of its loop at a time.  The parse tree is a sequence of line  *)
(* nodes of the grammar's struct types: tableHeader, schemaDef, dataRow    *)
(* and comment nodes and empty lines.                                      *)
(***************************************************************************)
ColumnDef(name, type, nullable) ==
    [Name |-> name, TypeName |-> type, Params |-> <<>>, Array |-> FALSE, Nullable |-> nullable]

SchemaLine(cols) == [NoLine EXCEPT !.SchemaDef = Some([Columns |-> cols])]

RowLine(fields) == [NoLine EXCEPT !.DataRow = Some([Fields |-> fields])]

UnquotedField(text) == [Quoted |-> None, Unquoted |-> Some(text)]

QuotedField(token) == [Quoted |-> Some(token), Unquoted |-> None]

TreeLines ==
    {TableLine(<<"T">>),
     TableLine(<<"U">>),
     SchemaLine(<<ColumnDef(<<"i", "d">>, <<"u", "i", "n", "t">>, FALSE)>>),
     SchemaLine(<<ColumnDef(<<"n", "a", "m", "e">>, <<"S", "t", "r">>, TRUE),
                  ColumnDef(<<"a", "t">>, <<"d", "a", "t", "e">>, FALSE)>>),
     RowLine(<<UnquotedField(<<"1">>)>>),
     RowLine(<<QuotedField(<<QUOTE, "a", ",", "b", QUOTE>>), UnquotedField(<<>>)>>),
     [NoLine EXCEPT !.Comment = Some([Text |-> <<"n", "o", "t", "e">>])],
     [NoLine EXCEPT !.EmptyLine = Some(<<NL>>)]}

Trees == UNION {[1..n -> TreeLines] : n \in 0..MaxLines}

InitTransform ==
    /\ ParseIdle
    /\ FieldIdle
    /\ ColumnIdle
    /\ JsonIdle
    /\ CallsIdle
    /\ RowIdle
    /\ tlines \in Trees
    /\ ti = 1
    /\ tacc = [Tables |-> <<>>, cur |-> None]
    /\ tpc = "loop"
    /\ tdoc = None

\* one iteration of  for _, line := range f.Lines
TransformStep ==
    /\ tpc = "loop"
    /\ ti <= Len(tlines)
    /\ tacc' = TransformLine(tacc, tlines[ti])
    /\ ti' = ti + 1
    /\ UNCHANGED <<parseVars, fieldVars, columnVars, jsonVars, callVars, rowVars,
                   tlines, tpc, tdoc>>

\* after the loop the last table is added and doc is returned
TransformReturn ==
    /\ tpc = "loop"
    /\ ti > Len(tlines)
    /\ tdoc' = Some(Flush(tacc))
    /\ tpc' = "done"
    /\ UNCHANGED <<parseVars, fieldVars, columnVars, jsonVars, callVars, rowVars,
                   tlines, ti, tacc>>

NextTransform == TransformStep \/ TransformReturn

SpecTransform == InitTransform /\ [][NextTransform]_vars

(***************************************************************************)
(* The Clojure builder, transform-tree of src/unnamed/part_000, on the     *)
(* same lines: a table block is a tableHeader line and the lines up to the *)
(* next tableHeader.                                                       *)
(***************************************************************************)
\* the number of tableHeader lines among the first i lines
RECURSIVE HeadersUpTo(_, _)
HeadersUpTo(lines, i) ==
    IF i = 0 THEN 0
    ELSE HeadersUpTo(lines, i - 1) + (IF lines[i].TableHeader # None THEN 1 ELSE 0)

\* the lines of the j-th table block
BlockLines(lines, j) ==
    SelectSeq([i \in 1..Len(lines) |-> [at |-> HeadersUpTo(lines, i), line |-> lines[i]]],
              LAMBDA x : x.at = j)

\* a column parameter as format writes it with %s
cljParam(col, k) == IF k <= Len(col.Params) THEN col.Params[k] ELSE <<"n", "u", "l", "l">>

\* format-type on the type of a column definition
cljFormatType(col) ==
    LET base == ToLower(col.TypeName)
        str == IF base = <<"d", "e", "c", "i", "m", "a", "l">>
               THEN base \o <<"(">> \o cljParam(col, 1) \o <<",">> \o cljParam(col, 2) \o <<")">>
               ELSE IF base = <<"r", "e", "f">>
               THEN base \o <<"(">> \o cljParam(col, 1) \o <<".">> \o cljParam(col, 2) \o <<")">>
               ELSE IF base = <<"e", "n", "u", "m">>
               THEN base \o <<"(">> \o JoinBar(col.Params) \o <<")">>
               ELSE base
    IN  str \o (IF col.Array THEN <<"[", "]">> ELSE <<>>)
            \o (IF col.Nullable THEN <<"?">> ELSE <<>>)

cljColumns(cols) ==
    [k \in 1..Len(cols) |-> [Name |-> cols[k].Name, Type |-> cljFormatType(cols[k])]]

cljField(f) ==
    IF f.Quoted # None THEN cljCleanFieldValue(cljCleanQuotedField(f.Quoted[1]))
    ELSE IF f.Unquoted # None THEN cljCleanFieldValue(f.Unquoted[1])
    ELSE VNull

\* one child of a :table-block: :table-header resets the name, :schema-def
\* resets the columns to those of this line, :data-row adds a row
cljChild(t, line) ==
    IF line.TableHeader # None THEN [t EXCEPT !.Name = line.TableHeader[1].Name]
    ELSE IF line.SchemaDef # None
    THEN [t EXCEPT !.Columns = cljColumns(line.SchemaDef[1].Columns)]
    ELSE IF line.DataRow # None
    THEN [t EXCEPT !.Rows = Append(@, [k \in 1..Len(line.DataRow[1].Fields) |->
                                          cljField(line.DataRow[1].Fields[k])])]
    ELSE t

RECURSIVE cljChildren(_, _, _)
cljChildren(t, block, i) ==
    IF i > Len(block) THEN t ELSE cljChildren(cljChild(t, block[i].line), block, i + 1)

cljTableBlock(block) == cljChildren([Name |-> <<>>, Columns |-> <<>>, Rows |-> <<>>], block, 1)

\* transform-tree: one table per :table-block
cljTransformTree(lines) ==
    [Tables |-> [j \in 1..HeadersUpTo(lines, Len(lines)) |-> cljTableBlock(BlockLines(lines, j))]]

\* the columns the schema-def lines of a block declare, in source order
RECURSIVE DeclaredColumns(_, _)
DeclaredColumns(block, i) ==
    IF i > Len(block) THEN <<>>
    ELSE (IF block[i].line.SchemaDef # None
          THEN [k \in 1..Len(block[i].line.SchemaDef[1].Columns) |->
                   [Name |-> block[i].line.SchemaDef[1].Columns[k].Name,
                    Type |-> formatType(block[i].line.SchemaDef[1].Columns[k])]]
          ELSE <<>>) \o DeclaredColumns(block, i + 1)

\* C24: the columns of a table are the columns of all the schema-def lines
\* of its block, concatenated in source order: no schema-def line replaces
\* or drops the columns of an earlier one, in the Go builder and in the
\* Clojure builder.
C24_ColumnsAppended ==
    tpc = "done" =>
        \A j \in 1..HeadersUpTo(tlines, Len(tlines)) :
            /\ tdoc[1].Tables[j].Columns = DeclaredColumns(BlockLines(tlines, j), 1)
            /\ cljTransformTree(tlines).Tables[j].Columns
                   = DeclaredColumns(BlockLines(tlines, j), 1)

\* the line the loop of transform looks at in this step
CurrentLine == tlines[ti]

\* C25: a table sealed into the Document is never changed by a later line:
\* every step keeps the sealed tables as they are and in place; a
\* schema-def or data-row line changes at most the current table; a
\* table-header seals the current table, if any, behind the sealed ones and
\* starts a new table without columns and rows; the Document returned
\* begins with the sealed tables.
C25_SealedFrozen ==
    [][/\ \A k \in 1..Len(tacc.Tables) :
              Len(tacc'.Tables) >= k /\ tacc'.Tables[k] = tacc.Tables[k]
       /\ (tpc = "loop" /\ ti <= Len(tlines) /\ CurrentLine.TableHeader = None)
              => tacc'.Tables = tacc.Tables
       /\ (tpc = "loop" /\ ti <= Len(tlines) /\ CurrentLine.TableHeader # None)
              => /\ Len(tacc'.Tables) = Len(tacc.Tables) + (IF tacc.cur # None THEN 1 ELSE 0)
                 /\ tacc.cur # None => tacc'.Tables[Len(tacc'.Tables)] = tacc.cur[1]
                 /\ tacc'.cur = Some([Name |-> CurrentLine.TableHeader[1].Name,
                                      Columns |-> <<>>, Rows |-> <<>>])
       /\ tpc' = "done"
              => \A k \in 1..Len(tacc.Tables) : tdoc'[1].Tables[k] = tacc.Tables[k]
      ]_vars

\* C25 happens: a table was sealed by a second table-header and the
\* second table then took a row or a column of its own.
C25_Witness ==
    /\ tpc = "done"
    /\ Len(tdoc[1].Tables) >= 2
    /\ Len(tdoc[1].Tables[2].Columns) + Len(tdoc[1].Tables[2].Rows) > 0

C26_InnerSpaceKept ==
    (fpc = "done" /\ ~fquoted /\ fval # None /\ fval[1].kind = "string") =>
        fval[1].s = TrimSpace(ftext)

\* C27: the numeric tag depends on the shape of the text only: text of the
\* form -?digits is an integer, whatever its magnitude, and text of the
\* form -?digits.digits is a float.
C27_TagByShape ==
    (fpc = "done" /\ flit # None /\ fval # None) =>
        /\ IntegerPattern(flit[1]) => fval[1].kind = "int"
        /\ (NumericPattern(flit[1]) /\ ~IntegerPattern(flit[1])) => fval[1].kind = "float"

(***************************************************************************)
(* Specification SpecRow: a data row of several fields is lexed and        *)
(* parsed and each field is classified, as transform does for a row of the *)
(* current table.  A field is written as its text, quoted or not, after    *)
(* optional blanks.                                                        *)
(***************************************************************************)
MaxFields == 3

RowFields ==
    {[text |-> <<"a">>, quoted |-> FALSE, pad |-> <<>>],
     [text |-> <<"a", ",", " ", "b">>, quoted |-> TRUE, pad |-> <<" ">>],
     [text |-> <<",">>, quoted |-> TRUE, pad |-> <<>>],
     [text |-> <<>>, quoted |-> FALSE, pad |-> <<>>],
     [text |-> <<"a", QUOTE, ",", QUOTE, "b">>, quoted |-> TRUE, pad |-> <<>>],
     [text |-> <<"1">>, quoted |-> FALSE, pad |-> <<" ">>],
     [text |-> <<"a", TAB, "b", " ">>, quoted |-> TRUE, pad |-> <<>>]}

Rows == UNION {[1..n -> RowFields] : n \in 1..MaxFields}

\* a field as it is written in the row
FieldText(f) ==
    f.pad \o (IF f.quoted THEN <<QUOTE>> \o EscapeQuotes(f.text) \o <<QUOTE>> ELSE f.text)

RECURSIVE JoinFields(_)
JoinFields(fs) ==
    IF Len(fs) = 1 THEN FieldText(fs[1])
    ELSE FieldText(Head(fs)) \o <<",">> \o JoinFields(Tail(fs))

RowSource(fs) == JoinFields(fs) \o <<NL>>

\* the values of the fields of the only line, a data row, of the parse r
RowValues(r) ==
    IF r.ok /\ Len(r.file.Lines) = 1 /\ r.file.Lines[1].DataRow # None
    THEN Some([k \in 1..Len(r.file.Lines[1].DataRow[1].Fields) |->
                  cleanField(r.file.Lines[1].DataRow[1].Fields[k])])
    ELSE None

InitRow ==
    /\ ParseIdle
    /\ FieldIdle
    /\ ColumnIdle
    /\ JsonIdle
    /\ CallsIdle
    /\ TransformIdle
    /\ rfields \in Rows
    /\ rpc = "start"
    /\ rvals = None

CallParseRow ==
    /\ rpc = "start"
    /\ rvals' = RowValues(parserParseString(RowSource(rfields)))
    /\ rpc' = "done"
    /\ UNCHANGED <<parseVars, fieldVars, columnVars, jsonVars, callVars, transformVars,
                   rfields>>

NextRow == CallParseRow

SpecRow == InitRow /\ [][NextRow]_vars

\* the number of commas of s from position i on that stand outside quotes
RECURSIVE OutsideCommas(_, _, _)
OutsideCommas(s, i, inside) ==
    IF i > Len(s) THEN 0
    ELSE IF s[i] = QUOTE THEN OutsideCommas(s, i + 1, ~inside)
    ELSE (IF s[i] = "," /\ ~inside THEN 1 ELSE 0) + OutsideCommas(s, i + 1, inside)

\* C28: a comma or horizontal whitespace inside a quoted field is part of
\* the field's text and does not split the row: the row has one field more
\* than it has commas outside quotes, as many as were written, and a quoted
\* field of plain text is the string of exactly that text.
C28_QuotedCommaKept ==
    rpc = "done" =>
        /\ rvals # None
        /\ Len(rvals[1]) = 1 + OutsideCommas(RowSource(rfields), 1, FALSE)
        /\ Len(rvals[1]) = Len(rfields)
        /\ \A k \in 1..Len(rfields) : rfields[k].quoted => rvals[1][k] = VStr(rfields[k].text)

\* C28 happens: a row of several fields, one of them the quoted `a, b`, has
\* been parsed and that field is the string `a, b`.
C28_Witness ==
    /\ rpc = "done"
    /\ rvals # None
    /\ Len(rfields) >= 2
    /\ \E k \in 1..Len(rfields) :
           /\ rfields[k].quoted
           /\ rfields[k].text = <<"a", ",", " ", "b">>
           /\ rvals[1][k] = VStr(<<"a", ",", " ", "b">>)

\* the lines of the parse `both` after its first are the lines of the
\* parse `alone`, and the two parses fail or succeed together
SameAfterFirst(both, alone) ==
    /\ both.ok = alone.ok
    /\ alone.ok => (Len(both.file.Lines) > 0 /\ Tail(both.file.Lines) = alone.file.Lines)

\* the text `following`, parsed after the comment line `comment`, gives the
\* lines it gives when parsed alone
ParsedAsAlone(comment, following) ==
    With(parserParseString(comment \o following), LAMBDA both :
        SameAfterFirst(both, parserParseString(following)))

\* C30: a comment never extends past its own line: the line that follows a
\* comment line, the comment of `#` alone included, is parsed exactly as it
\* is parsed when the comment line is absent.
C30_CommentEndsAtLine ==
    pc = "done" =>
        \A k \in 1..(Len(src) - 1) :
            SourceLines[src[k]].kind = "comment" =>
                ParsedAsAlone(SourceLines[src[k]].text, SourceLines[src[k + 1]].text)

====
